---------------------------- MODULE Spec2Model ----------------------------
(***************************************************************************)
(* AI Debate Arena: the DebateManager orchestrator (debate_manager.py),    *)
(* the agents' completion wrapper (agents.py), the Streamlit driver        *)
(* (app.py) and the response parsers (reasoning_techniques.py).            *)
(*                                                                         *)
(* A text is a sequence of tokens: a token is a word, a run of blanks, a   *)
(* marker or the line break "\n".  A text the completion service returns   *)
(* to the orchestrator is a single opaque token: the orchestrator only     *)
(* stores it and interpolates it into later prompts.                       *)
(***************************************************************************)
EXTENDS Integers, Sequences, FiniteSets, TLC

(***************************************************************************)
(* Bounds of the model.                                                    *)
(***************************************************************************)
\* the longest transcript a direct caller of DebateManager may build
MaxTurns == 4
\* the round_number arguments a direct caller passes: 1..MaxRoundNumber
MaxRoundNumber == 2
\* the largest number of rounds chosen on the slider of app.py
MaxNumRounds == 3
\* the most conclude_debate calls on one DebateManager
MaxConclusions == 2
\* the most THOUGHT/ACTION/OBSERVATION/REASONING cycles of a parsed reply
MaxCycles == 2
\* the most lines of a Chain-of-Thought reply
MaxStepLines == 3
\* the most lines of a Self-Correction reply
MaxSectionLines == 3

\* what the completion service may answer: a text, or an exception message
Texts == {"p"}
Errors == {"timeout"}
Outcomes == [ok : {TRUE}, payload : Texts] \cup [ok : {FALSE}, payload : Errors]
\* datetime.now() as get_debate_transcript formats it
Clock == {"2026-01-01 10:00:00", "2026-01-01 10:00:01"}

VARIABLES
    debate_history,     \* DebateManager.debate_history
    round_analyses,     \* DebateManager.round_analyses
    final_conclusion,   \* DebateManager.final_conclusion
    debate_manager,     \* st.session_state.debate_manager is not None
    debate_started,     \* st.session_state.debate_started
    current_round,      \* st.session_state.current_round
    num_rounds,         \* st.session_state.num_rounds (0: not set yet)
    op,                 \* the call that ran last: its name and arguments
    calls,              \* the completion calls that call issued, in order
    result,             \* what that call returned (or raised)
    conclusions_made    \* how often conclude_debate ran on this manager

manager_vars == <<debate_history, round_analyses, final_conclusion>>
session_vars == <<debate_manager, debate_started, current_round, num_rounds>>
call_vars == <<op, calls, result>>
vars == <<manager_vars, session_vars, call_vars, conclusions_made>>

(***************************************************************************)
(* Python values.                                                          *)
(***************************************************************************)
None == [py_none |-> TRUE]
\* dict.get(key, default)
Get(d, key, default) == IF key \in DOMAIN d THEN d[key] ELSE default
\* d[key] = value
SetItem(d, key, value) == (key :> value) @@ d
\* a call either returns a value or raises an exception
Return(v) == [raised |-> FALSE, value |-> v]
Raise(e) == [raised |-> TRUE, exc |-> e]

\* str(n) of a non-negative integer, as digit tokens
Digit(n) == <<"0", "1", "2", "3", "4", "5", "6", "7", "8", "9">>[n + 1]
RECURSIVE Str(_)
Str(n) == IF n < 10 THEN <<Digit(n)>> ELSE Str(n \div 10) \o <<Digit(n % 10)>>

(***************************************************************************)
(* config.py and the constructor's arguments.                              *)
(***************************************************************************)
GROQ_MODEL_NAME == "llama-3.3-70b-versatile"
Topic == "X"
PositionA == "Pro-X"
PositionB == "Anti-X"

(***************************************************************************)
(* agents.py: the completion wrapper.                                      *)
(***************************************************************************)
\* LLMAgent._groq_think: the service answers, or the client raises
_groq_think(outcome) ==
    IF outcome.ok
    THEN Return([response |-> outcome.payload,
                 model |-> GROQ_MODEL_NAME,
                 api_type |-> "groq"])
    ELSE Raise(outcome.payload)

\* LLMAgent.think without its try/except
think_uncaught(outcome) == _groq_think(outcome)

\* LLMAgent.think: every exception becomes an error-flagged result
think(outcome) ==
    LET r == _groq_think(outcome)
    IN  IF r.raised
        THEN Return([response |-> "Error: " \o r.exc, error |-> TRUE])
        ELSE r

\* response['reasoning_technique'] = technique, after think() returned
Tagged(r, technique) ==
    IF r.raised THEN r
    ELSE Return(SetItem(r.value, "reasoning_technique", technique))

\* DebateAgent.opening_statement
opening_statement(outcome) == Tagged(think(outcome), "Chain of Thought")
\* DebateAgent.respond_to_opponent
respond_to_opponent(outcome) == Tagged(think(outcome), "ReAct")
\* ModeratorAgent.analyze_round
analyze_round(outcome) == Tagged(think(outcome), "Chain of Thought")
\* ModeratorAgent.final_conclusion
moderator_final_conclusion(outcome) == Tagged(think(outcome), "ReAct")
\* ModeratorAgent.evaluate_debate_quality
evaluate_debate_quality(outcome) == Tagged(think(outcome), "Reflective Thinking")
\* ModeratorAgent.critique_debate_fairness
critique_debate_fairness(outcome) == Tagged(think(outcome), "Self-Correction")

\* one entry of the call log: who was asked what, with which interpolated
\* arguments, what the completion service did and what came back
Call(agent, method, args, outcome, returned) ==
    [agent |-> agent, method |-> method, args |-> args,
     outcome |-> outcome, returned |-> returned]

(***************************************************************************)
(* debate_manager.py: DebateManager.                                       *)
(***************************************************************************)
\* the turn kinds, as token sequences
OpeningType == <<"opening">>
\* a rebuttal filed under the kind of the opening statements
RebuttalTypeAsOpening(round_number) == OpeningType

\* f"rebuttal_round_{round_number}"
RebuttalType(round_number) ==
    <<"rebuttal", "_", "round", "_">> \o Str(round_number)

\* the dict appended to debate_history for one response
Message(agent, type, response, default_api) ==
    [agent |-> agent,
     type |-> type,
     content |-> Get(response, "response", ""),
     raw_response |-> response,
     api_type |-> Get(response, "api_type", default_api)]

\* a prepend instead of an append
history_prepend(history, msg) == <<msg>> \o history

\* self.debate_history.append(msg)
history_append(history, msg) == Append(history, msg)

\* str.upper() of a token
UpperToken(t) ==
    CASE t = "opening" -> "OPENING"
      [] t = "rebuttal" -> "REBUTTAL"
      [] t = "round" -> "ROUND"
      [] OTHER -> t
\* the kind written as stored, not upper-cased
UpperSkipped(type) == type

\* msg['type'].upper()
Upper(type) == [i \in 1..Len(type) |-> UpperToken(type[i])]

Rule80 == "================================================================================"
Rule40 == "----------------------------------------"

RECURSIVE TranscriptEntries(_, _)
\* the loop of get_debate_transcript over turns i..len(history)
TranscriptEntries(history, i) ==
    IF i > Len(history) THEN <<>>
    ELSE <<"\n", "[">> \o Str(i) \o <<"] ", history[i].agent, " - ">>
         \o Upper(history[i].type) \o <<"\n", Rule40, "\n">>
         \o <<history[i].content, "\n">>
         \o TranscriptEntries(history, i + 1)

\* the conclusion section written whether or not a conclusion is set
ConclusionTrailerAlways(conclusion) ==
    <<"\n", Rule80, "\n", "MODERATOR FINAL CONCLUSION", "\n",
      Rule80, "\n", Get(conclusion, "response", ""), "\n">>

\* if self.final_conclusion: the conclusion section of the transcript
ConclusionTrailer(conclusion) ==
    IF conclusion # None
    THEN <<"\n", Rule80, "\n", "MODERATOR FINAL CONCLUSION", "\n",
           Rule80, "\n", Get(conclusion, "response", ""), "\n">>
    ELSE <<>>

\* DebateManager.get_debate_transcript, as a text
RenderTranscript(history, conclusion, now) ==
    <<"\n", Rule80, "\n", "DEBATE TRANSCRIPT", "\n", Rule80, "\n", "\n",
      "TOPIC: ", Topic, "\n", "\n",
      "Agent A Position: ", PositionA, "\n",
      "Agent B Position: ", PositionB, "\n", "\n",
      Rule80, "\n", "\n">>
    \o TranscriptEntries(history, 1)
    \o ConclusionTrailer(conclusion)
    \o <<"\n", Rule80, "\n", "Generated: ", now, "\n">>

\* [msg["content"] for msg in history]
Contents(history) == [i \in 1..Len(history) |-> history[i].content]
\* [msg["content"] for msg in history if msg["agent"] == agent]
ArgsOf(history, agent) ==
    Contents(SelectSeq(history, LAMBDA m : m.agent = agent))

\* DebateManager.start_debate run on `history`: the transcript it leaves,
\* the completion calls it issues and what it returns
StartDebate(history, oa, ob) ==
    LET ra == opening_statement(oa)
        ca == Call("Agent A", "opening_statement", <<Topic, PositionA>>, oa, ra)
    IN  IF ra.raised
        THEN [history |-> history, calls |-> <<ca>>, ret |-> ra]
        ELSE
        LET h1 == history_append(history,
                      Message("Agent A", OpeningType, ra.value, "gpt"))
            rb == opening_statement(ob)
            cb == Call("Agent B", "opening_statement", <<Topic, PositionB>>, ob, rb)
        IN  IF rb.raised
            THEN [history |-> h1, calls |-> <<ca, cb>>, ret |-> rb]
            ELSE [history |-> history_append(h1,
                      Message("Agent B", OpeningType, rb.value, "gemini")),
                  calls |-> <<ca, cb>>,
                  ret |-> Return([agent_a_opening |-> ra.value,
                                  agent_b_opening |-> rb.value,
                                  success |-> TRUE])]

\* self.debate_history[-1]["content"] if self.debate_history else ""
LastArg(history) ==
    IF Len(history) > 0 THEN history[Len(history)].content ELSE ""
\* self.debate_history[-2]["content"] if len(self.debate_history) > 1 else ""
SecondLastArg(history) ==
    IF Len(history) > 1 THEN history[Len(history) - 1].content ELSE ""

\* the analysis appended to the transcript as a moderator turn
HistoryAfterAnalysisStored(history, analysis) ==
    history_append(history,
        Message("Moderator", <<"analysis">>, analysis, "groq"))

\* the transcript once the round's analysis is there: the analysis goes to
\* results["moderator_analysis"] only
HistoryAfterAnalysis(history, analysis) == history

\* agent B asked to rebut agent A's turn of before the round
OpponentOfBStale(history, a_rebuttal) == SecondLastArg(history)

\* what agent B is asked to rebut: agent A's rebuttal of this round
OpponentOfB(history, a_rebuttal) == Get(a_rebuttal, "response", "")

\* DebateManager.execute_round(round_number) run on `history`
ExecuteRound(history, round_number, oa, ob, om) ==
    LET agent_b_last_arg == LastArg(history)
        ra == respond_to_opponent(oa)
        ca == Call("Agent A", "respond_to_opponent",
                   <<agent_b_last_arg, Topic, PositionA>>, oa, ra)
    IN  IF ra.raised
        THEN [history |-> history, calls |-> <<ca>>, ret |-> ra]
        ELSE
        LET h1 == history_append(history,
                      Message("Agent A", RebuttalType(round_number),
                              ra.value, "gpt"))
            rb == respond_to_opponent(ob)
            cb == Call("Agent B", "respond_to_opponent",
                       <<OpponentOfB(history, ra.value), Topic, PositionB>>, ob, rb)
        IN  IF rb.raised
            THEN [history |-> h1, calls |-> <<ca, cb>>, ret |-> rb]
            ELSE
            LET h2 == history_append(h1,
                          Message("Agent B", RebuttalType(round_number),
                                  rb.value, "gemini"))
                rm == analyze_round(om)
                cm == Call("Moderator", "analyze_round",
                           <<Get(ra.value, "response", ""),
                             Get(rb.value, "response", ""), Topic>>, om, rm)
            IN  IF rm.raised
                THEN [history |-> h2, calls |-> <<ca, cb, cm>>, ret |-> rm]
                ELSE [history |-> HistoryAfterAnalysis(h2, rm.value),
                      calls |-> <<ca, cb, cm>>,
                      ret |-> Return([round |-> round_number,
                                      agent_a_rebuttal |-> ra.value,
                                      agent_b_rebuttal |-> rb.value,
                                      moderator_analysis |-> rm.value,
                                      success |-> TRUE])]

\* the first conclusion kept when the slot is already set
ConclusionSlotKeepFirst(old, conclusion) ==
    IF old # None THEN old ELSE conclusion

\* self.final_conclusion = conclusion
ConclusionSlot(old, conclusion) == conclusion

\* the conclusion appended to the transcript as a moderator turn
HistoryAfterConclusionStored(history, conclusion) ==
    history_append(history,
        Message("Moderator", <<"conclusion">>, conclusion, "groq"))

\* the transcript once the conclusion is set: conclude_debate appends nothing
HistoryAfterConclusion(history, conclusion) == history

\* the transcript rendered before the slot is assigned
SlotRenderedStale(old, slot) == old

\* the slot get_debate_transcript reads when conclude_debate renders the
\* transcript: the assignment comes first
SlotRendered(old, slot) == slot

\* DebateManager.conclude_debate run on `history` with conclusion slot `old`:
\* the transcript and the slot it leaves, the calls it issues, what it returns
ConcludeDebate(history, old, oc, oq, of, now) ==
    LET all_arguments == Contents(history)
        rc == moderator_final_conclusion(oc)
        cc == Call("Moderator", "final_conclusion",
                   <<all_arguments, Topic>>, oc, rc)
    IN  IF rc.raised
        THEN [history |-> history, conclusion |-> old,
              calls |-> <<cc>>, ret |-> rc]
        ELSE
        LET slot == ConclusionSlot(old, rc.value)
            h1 == HistoryAfterConclusion(history, rc.value)
            transcript == RenderTranscript(h1, SlotRendered(old, slot), now)
            rq == evaluate_debate_quality(oq)
            cq == Call("Moderator", "evaluate_debate_quality",
                       <<transcript, Topic>>, oq, rq)
        IN  IF rq.raised
            THEN [history |-> h1, conclusion |-> slot,
                  calls |-> <<cc, cq>>, ret |-> rq]
            ELSE
            LET rf == critique_debate_fairness(of)
                cf == Call("Moderator", "critique_debate_fairness",
                           <<ArgsOf(h1, "Agent A"),
                             ArgsOf(h1, "Agent B")>>, of, rf)
            IN  IF rf.raised
                THEN [history |-> h1, conclusion |-> slot,
                      calls |-> <<cc, cq, cf>>, ret |-> rf]
                ELSE [history |-> h1,
                      conclusion |-> slot,
                      calls |-> <<cc, cq, cf>>,
                      ret |-> Return([conclusion |-> rc.value,
                                      quality_evaluation |-> rq.value,
                                      fairness_check |-> rf.value,
                                      success |-> TRUE])]

\* "rebuttal" in m["type"]
IsRebuttal(m) == \E i \in 1..Len(m.type) : m.type[i] = "rebuttal"

\* DebateManager.get_debate_summary
Summary(history, conclusion) ==
    [topic |-> Topic,
     agent_a_position |-> PositionA,
     agent_b_position |-> PositionB,
     num_rounds |-> Len(SelectSeq(history, IsRebuttal)),
     total_messages |-> Len(history),
     conclusion_available |-> conclusion # None]

(***************************************************************************)
(* The calls of a direct caller on one DebateManager.                      *)
(***************************************************************************)
\* DebateManager.__init__
NewManager ==
    /\ debate_history = <<>>
    /\ round_analyses = <<>>
    /\ final_conclusion = None
    /\ conclusions_made = 0

Init ==
    /\ NewManager
    /\ debate_manager = TRUE
    /\ debate_started = FALSE
    /\ current_round = 0
    /\ num_rounds = 0
    /\ op = [name |-> "__init__", args |-> <<>>]
    /\ calls = <<>>
    /\ result = Return(None)

start_debate ==
    /\ Len(debate_history) + 2 <= MaxTurns
    /\ \E oa, ob \in Outcomes :
         LET r == StartDebate(debate_history, oa, ob)
         IN  /\ debate_history' = r.history
             /\ calls' = r.calls
             /\ result' = r.ret
    /\ op' = [name |-> "start_debate", args |-> <<>>]
    /\ UNCHANGED <<round_analyses, final_conclusion, session_vars,
                   conclusions_made>>

execute_round(round_number) ==
    /\ Len(debate_history) + 2 <= MaxTurns
    /\ \E oa, ob, om \in Outcomes :
         LET r == ExecuteRound(debate_history, round_number, oa, ob, om)
         IN  /\ debate_history' = r.history
             /\ calls' = r.calls
             /\ result' = r.ret
    /\ op' = [name |-> "execute_round", args |-> <<round_number>>]
    /\ UNCHANGED <<round_analyses, final_conclusion, session_vars,
                   conclusions_made>>

conclude_debate ==
    /\ conclusions_made < MaxConclusions
    /\ \E oc, oq, of \in Outcomes, now \in Clock :
         LET r == ConcludeDebate(debate_history, final_conclusion,
                                 oc, oq, of, now)
         IN  /\ debate_history' = r.history
             /\ final_conclusion' = r.conclusion
             /\ calls' = r.calls
             /\ result' = r.ret
    /\ conclusions_made' = conclusions_made + 1
    /\ op' = [name |-> "conclude_debate", args |-> <<>>]
    /\ UNCHANGED <<round_analyses, session_vars>>

get_debate_transcript ==
    /\ \E now \in Clock :
         result' = Return(RenderTranscript(debate_history, final_conclusion, now))
    /\ calls' = <<>>
    /\ op' = [name |-> "get_debate_transcript", args |-> <<>>]
    /\ UNCHANGED <<manager_vars, session_vars, conclusions_made>>

get_debate_summary ==
    /\ result' = Return(Summary(debate_history, final_conclusion))
    /\ calls' = <<>>
    /\ op' = [name |-> "get_debate_summary", args |-> <<>>]
    /\ UNCHANGED <<manager_vars, session_vars, conclusions_made>>

Next ==
    \/ start_debate
    \/ \E round_number \in 1..MaxRoundNumber : execute_round(round_number)
    \/ conclude_debate
    \/ get_debate_transcript
    \/ get_debate_summary

Spec == Init /\ [][Next]_vars

(***************************************************************************)
(* app.py: the Streamlit driver.  One action is one click: the script run  *)
(* it triggers, and the run that st.rerun() starts right after it.         *)
(***************************************************************************)
\* st.slider("Number of debate rounds", min_value=1, max_value=5)
SliderMin == 1
SliderMax == 5
SliderValues ==
    SliderMin..(IF MaxNumRounds < SliderMax THEN MaxNumRounds ELSE SliderMax)

\* the session before the first click
DriverInit ==
    /\ NewManager
    /\ debate_manager = FALSE
    /\ debate_started = FALSE
    /\ current_round = 0
    /\ num_rounds = 0
    /\ op = [name |-> "session", args |-> <<>>]
    /\ calls = <<>>
    /\ result = Return(None)

\* the round the session is in once the openings are generated
RoundAfterOpenings == 1

\* "Start Debate": a new DebateManager, then the rerun generates the openings
ClickStartDebate ==
    /\ ~debate_started
    /\ \E nr \in SliderValues, oa, ob \in Outcomes :
         LET r == StartDebate(<<>>, oa, ob)
         IN  /\ debate_manager' = TRUE
             /\ num_rounds' = nr
             /\ debate_started' = TRUE
             /\ debate_history' = r.history
             /\ round_analyses' = <<>>
             /\ final_conclusion' = None
             /\ conclusions_made' = 0
             /\ current_round' = IF r.ret.raised THEN 0 ELSE RoundAfterOpenings
             /\ calls' = r.calls
             /\ result' = r.ret
    /\ op' = [name |-> "start_debate", args |-> <<>>]

\* "Next Round" running a round whatever the round reached
MayRunRoundAlways(round, planned) == TRUE

\* whether "Next Round" runs a round
MayRunRound(round, planned) == round < planned

\* "Next Round"
ClickNextRound ==
    /\ debate_started
    /\ IF MayRunRound(current_round, num_rounds)
       THEN /\ \E oa, ob, om \in Outcomes :
                 LET r == ExecuteRound(debate_history, current_round, oa, ob, om)
                 IN  /\ debate_history' = r.history
                     /\ current_round' =
                            IF r.ret.raised THEN current_round
                            ELSE current_round + 1
                     /\ calls' = r.calls
                     /\ result' = r.ret
            /\ op' = [name |-> "execute_round", args |-> <<current_round>>]
            /\ UNCHANGED <<round_analyses, final_conclusion, debate_manager,
                           debate_started, num_rounds, conclusions_made>>
       ELSE UNCHANGED vars

\* whether the "Generate Conclusion" button is shown
MayConclude(round, planned) == round >= planned

\* "Generate Conclusion"
ClickGenerateConclusion ==
    /\ debate_started
    /\ MayConclude(current_round, num_rounds)
    /\ conclusions_made < MaxConclusions
    /\ \E oc, oq, of \in Outcomes, now \in Clock :
         LET r == ConcludeDebate(debate_history, final_conclusion,
                                 oc, oq, of, now)
         IN  /\ debate_history' = r.history
             /\ final_conclusion' = r.conclusion
             /\ calls' = r.calls
             /\ result' = r.ret
    /\ conclusions_made' = conclusions_made + 1
    /\ op' = [name |-> "conclude_debate", args |-> <<>>]
    /\ UNCHANGED <<round_analyses, session_vars>>

\* "Reset" under the debate: the manager is dropped, current_round is kept
ClickReset ==
    /\ debate_started
    /\ debate_started' = FALSE
    /\ debate_manager' = FALSE
    /\ debate_history' = <<>>
    /\ round_analyses' = <<>>
    /\ final_conclusion' = None
    /\ conclusions_made' = 0
    /\ op' = [name |-> "reset", args |-> <<>>]
    /\ calls' = <<>>
    /\ result' = Return(None)
    /\ UNCHANGED <<current_round, num_rounds>>

\* "Reset Debate" in the sidebar: current_round is set to 0 as well
ClickResetDebate ==
    /\ debate_started
    /\ debate_started' = FALSE
    /\ debate_manager' = FALSE
    /\ current_round' = 0
    /\ debate_history' = <<>>
    /\ round_analyses' = <<>>
    /\ final_conclusion' = None
    /\ conclusions_made' = 0
    /\ op' = [name |-> "reset", args |-> <<>>]
    /\ calls' = <<>>
    /\ result' = Return(None)
    /\ UNCHANGED num_rounds

\* debate_data of the JSON export, `now` being datetime.now() at the click
DebateData(history, conclusion, round, now) ==
    [metadata |-> [topic |-> Topic,
                   agent_a_position |-> PositionA,
                   agent_b_position |-> PositionB,
                   date |-> now,
                   total_rounds |-> round],
     messages |-> history,
     conclusion |-> IF conclusion # None THEN Get(conclusion, "response", "")
                    ELSE None]

\* "Download as JSON" in the transcript tab
ClickDownloadJSON ==
    /\ debate_started
    /\ \E now \in Clock :
         result' = Return(DebateData(debate_history, final_conclusion,
                                     current_round, now))
    /\ op' = [name |-> "download_json", args |-> <<>>]
    /\ calls' = <<>>
    /\ UNCHANGED <<manager_vars, session_vars, conclusions_made>>

DriverNext ==
    \/ ClickStartDebate
    \/ ClickNextRound
    \/ ClickGenerateConclusion
    \/ ClickReset
    \/ ClickResetDebate
    \/ ClickDownloadJSON

DriverSpec == DriverInit /\ [][DriverNext]_vars

(***************************************************************************)
(* reasoning_techniques.py: the response parsers, on texts of tokens.      *)
(***************************************************************************)
\* the characters str.strip() removes, as tokens
\* the characters str.strip() removes
Whitespace == {" ", "\t", "\n"}

\* text.find(sep), counted from 1; 0 when sep does not occur
Find(text, sep) ==
    IF \E i \in 1..Len(text) : text[i] = sep
    THEN CHOOSE i \in 1..Len(text) :
             text[i] = sep /\ \A j \in 1..(i - 1) : text[j] # sep
    ELSE 0

RECURSIVE Split(_, _)
\* text.split(sep): the pieces of `text` between the occurrences of `sep`
Split(text, sep) ==
    LET i == Find(text, sep)
    IN  IF i = 0 THEN <<text>>
        ELSE <<SubSeq(text, 1, i - 1)>>
             \o Split(SubSeq(text, i + 1, Len(text)), sep)

RECURSIVE LStrip(_)
LStrip(text) ==
    IF text # <<>> /\ Head(text) \in Whitespace THEN LStrip(Tail(text))
    ELSE text
RECURSIVE RStrip(_)
RStrip(text) ==
    IF text # <<>> /\ text[Len(text)] \in Whitespace
    THEN RStrip(SubSeq(text, 1, Len(text) - 1))
    ELSE text
\* str.strip()
Strip(text) == RStrip(LStrip(text))

\* marker in line
Contains(line, marker) == \E i \in 1..Len(line) : line[i] = marker

\* the empty dict
EmptyDict == <<>>
\* bool(d) of a dict
Truthy(d) == DOMAIN d # {}

\* line.split(marker)[1].strip()
AfterMarker(line, marker) == Strip(Split(line, marker)[2])

\* the final `if current_cycle: cycles.append(current_cycle)` left out
CloseCyclesDropLast(cycles, current_cycle) == cycles

\* the final `if current_cycle: cycles.append(current_cycle)`
CloseCycles(cycles, current_cycle) ==
    IF Truthy(current_cycle) THEN Append(cycles, current_cycle) ELSE cycles

RECURSIVE ReactLoop(_, _, _, _)
\* the loop of parse_react_cycle from line i on
ReactLoop(lines, i, cycles, current_cycle) ==
    IF i > Len(lines) THEN CloseCycles(cycles, current_cycle)
    ELSE LET line == lines[i]
         IN  IF Contains(line, "THOUGHT:")
             THEN ReactLoop(lines, i + 1,
                      IF Truthy(current_cycle)
                      THEN Append(cycles, current_cycle) ELSE cycles,
                      SetItem(EmptyDict, "thought", AfterMarker(line, "THOUGHT:")))
             ELSE IF Contains(line, "ACTION:")
             THEN ReactLoop(lines, i + 1, cycles,
                      SetItem(current_cycle, "action",
                              AfterMarker(line, "ACTION:")))
             ELSE IF Contains(line, "OBSERVATION:")
             THEN ReactLoop(lines, i + 1, cycles,
                      SetItem(current_cycle, "observation",
                              AfterMarker(line, "OBSERVATION:")))
             ELSE IF Contains(line, "REASONING:")
             THEN ReactLoop(lines, i + 1, cycles,
                      SetItem(current_cycle, "reasoning",
                              AfterMarker(line, "REASONING:")))
             ELSE ReactLoop(lines, i + 1, cycles, current_cycle)

\* ReActAgent.parse_react_cycle(response)
ParseReactCycle(response) == ReactLoop(Split(response, "\n"), 1, <<>>, EmptyDict)

(***************************************************************************)
(* reasoning_techniques.py: ChainOfThoughtPrompter.extract_reasoning_steps *)
(***************************************************************************)
\* the prefixes that open a step
StepMarkers ==
    {"1.", "2.", "3.", "4.", "5.", "First", "Second", "Third", "Finally"}
\* text.startswith(prefixes), a prefix being one token
StartsWith(text, prefixes) == text # <<>> /\ Head(text) \in prefixes

\* '\n'.join(lines)
RECURSIVE JoinLines(_)
JoinLines(lines) ==
    IF lines = <<>> THEN <<>>
    ELSE IF Len(lines) = 1 THEN lines[1]
    ELSE lines[1] \o <<"\n">> \o JoinLines(Tail(lines))

\* steps.append('\n'.join(current_step).strip()), guarded by `if current_step:`
CloseStep(steps, current_step) ==
    IF current_step # <<>> THEN Append(steps, Strip(JoinLines(current_step)))
    ELSE steps

\* a marker line opening a step dropped what was gathered before it
OpenStepDropPending(steps, current_step) == steps

\* a marker line closes the step gathered so far
OpenStep(steps, current_step) == CloseStep(steps, current_step)

RECURSIVE StepsLoop(_, _, _, _)
\* the loop of extract_reasoning_steps from line i on, and its final append
StepsLoop(lines, i, steps, current_step) ==
    IF i > Len(lines) THEN CloseStep(steps, current_step)
    ELSE IF StartsWith(Strip(lines[i]), StepMarkers)
         THEN StepsLoop(lines, i + 1, OpenStep(steps, current_step),
                        <<lines[i]>>)
         ELSE StepsLoop(lines, i + 1, steps, Append(current_step, lines[i]))

\* [step for step in steps] without the `if step.strip()` filter
NonBlankStepsKeepAll(steps) == steps

\* [step for step in steps if step.strip()]
NonBlankSteps(steps) == SelectSeq(steps, LAMBDA step : Strip(step) # <<>>)

\* ChainOfThoughtPrompter.extract_reasoning_steps(response)
ExtractReasoningSteps(response) ==
    NonBlankSteps(StepsLoop(Split(response, "\n"), 1, <<>>, <<>>))

(***************************************************************************)
(* reasoning_techniques.py: SelfCorrectionEngine.extract_improvements      *)
(***************************************************************************)
\* the tokens of more than one character that a line inside a section may
\* hold, as their characters (a section header never is inside a section)
Spell ==
    ("THOUGHT:" :> <<"T", "H", "O", "U", "G", "H", "T", ":">>) @@
    ("ACTION:" :> <<"A", "C", "T", "I", "O", "N", ":">>) @@
    ("OBSERVATION:" :>
        <<"O", "B", "S", "E", "R", "V", "A", "T", "I", "O", "N", ":">>) @@
    ("REASONING:" :> <<"R", "E", "A", "S", "O", "N", "I", "N", "G", ":">>) @@
    ("1." :> <<"1", ".">>) @@ ("2." :> <<"2", ".">>) @@
    ("3." :> <<"3", ".">>) @@ ("4." :> <<"4", ".">>) @@
    ("5." :> <<"5", ".">>) @@
    ("First" :> <<"F", "i", "r", "s", "t">>) @@
    ("Second" :> <<"S", "e", "c", "o", "n", "d">>) @@
    ("Third" :> <<"T", "h", "i", "r", "d">>) @@
    ("Finally" :> <<"F", "i", "n", "a", "l", "l", "y">>)

RECURSIVE Chars(_)
\* the characters of a text
Chars(text) ==
    IF text = <<>> THEN <<>>
    ELSE (IF Head(text) \in DOMAIN Spell THEN Spell[Head(text)]
          ELSE <<Head(text)>>) \o Chars(Tail(text))

\* text[n:] counted in characters
DropChars(text, n) ==
    LET cs == Chars(text) IN SubSeq(cs, n + 1, Len(cs))

\* int(c) of one character
int(c) ==
    IF \E n \in 0..9 : Digit(n) = c
    THEN Return(CHOOSE n \in 0..9 : Digit(n) = c)
    ELSE Raise("ValueError")

\* sections, as extract_improvements initialises it
DefaultSections ==
    [weaknesses |-> <<>>, valid_points |-> <<>>,
     improved_argument |-> <<>>, confidence |-> 5]
\* current_section = None
NoSection == "None"

\* line.strip()[1:], one character dropped
ItemTextOneDropped(line) == DropChars(Strip(line), 1)

\* line.strip()[2:]
ItemText(line) == DropChars(Strip(line), 2)

\* score = int(line.strip()[0]); sections['confidence'] = score
SetConfidence(sections, line) ==
    LET score == int(Chars(Strip(line))[1])
    IN  IF score.raised THEN score
        ELSE Return(SetItem(sections, "confidence", score.value))

\* the confidence line handled without the try/except
ConfidenceUncaught(sections, line) == SetConfidence(sections, line)

\* try: ... except: pass around the two statements
Confidence(sections, line) ==
    LET r == SetConfidence(sections, line)
    IN  IF r.raised THEN Return(sections) ELSE r

\* the body of the last elif: a non-empty line inside a section
SectionLine(sections, current_section, line) ==
    IF current_section \in {"weaknesses", "valid_points"}
    THEN IF StartsWith(Strip(line), {"-"})
         THEN Return(SetItem(sections, current_section,
                  Append(sections[current_section], ItemText(line))))
         ELSE Return(sections)
    ELSE IF current_section = "improved_argument"
    THEN Return(SetItem(sections, "improved_argument",
             sections.improved_argument \o line \o <<"\n">>))
    ELSE IF current_section = "confidence"
    THEN Confidence(sections, line)
    ELSE Return(sections)

RECURSIVE ImprovementsLoop(_, _, _, _)
\* the loop of extract_improvements from line i on
ImprovementsLoop(lines, i, sections, current_section) ==
    IF i > Len(lines) THEN Return(sections)
    ELSE LET line == lines[i]
         IN  IF Contains(line, "IDENTIFIED WEAKNESSES")
             THEN ImprovementsLoop(lines, i + 1, sections, "weaknesses")
             ELSE IF Contains(line, "VALID COUNTER-POINTS")
             THEN ImprovementsLoop(lines, i + 1, sections, "valid_points")
             ELSE IF Contains(line, "IMPROVED ARGUMENT")
             THEN ImprovementsLoop(lines, i + 1, sections,
                                   "improved_argument")
             ELSE IF Contains(line, "CONFIDENCE LEVEL")
             THEN ImprovementsLoop(lines, i + 1, sections, "confidence")
             ELSE IF current_section # NoSection /\ Strip(line) # <<>>
             THEN LET r == SectionLine(sections, current_section, line)
                  IN  IF r.raised THEN r
                      ELSE ImprovementsLoop(lines, i + 1, r.value,
                                            current_section)
             ELSE ImprovementsLoop(lines, i + 1, sections, current_section)

\* SelfCorrectionEngine.extract_improvements(critique_response)
ExtractImprovements(critique_response) ==
    ImprovementsLoop(Split(critique_response, "\n"), 1, DefaultSections,
                     NoSection)

(***************************************************************************)
(* The replies the parsers are run on.                                     *)
(***************************************************************************)

\* the texts that follow a marker on its line
ThoughtBodies == {<<>>, <<" ", "a", " ", "b">>}
ActionBodies == {<<" ", "c", " ">>}
ObservationBodies == {<<" ", "d">>}
ReasoningBodies == {<<"e", " ", "a">>}

\* nothing, or one line `marker body`
OptionalLine(marker, bodies) ==
    {<<>>} \cup {<< <<marker>> \o b >> : b \in bodies}

\* one well-formed cycle, as its lines: a THOUGHT: line, then an optional
\* ACTION: line, an optional OBSERVATION: line, an optional REASONING: line
WellFormedCycles ==
    {<< <<"THOUGHT:">> \o t >> \o a \o o \o r :
        t \in ThoughtBodies,
        a \in OptionalLine("ACTION:", ActionBodies),
        o \in OptionalLine("OBSERVATION:", ObservationBodies),
        r \in OptionalLine("REASONING:", ReasoningBodies)}

RECURSIVE CycleLines(_)
\* the line sequences made of 1..n well-formed cycles
CycleLines(n) ==
    IF n = 0 THEN {<<>>}
    ELSE LET shorter == CycleLines(n - 1)
         IN  shorter \cup {ls \o c : ls \in shorter, c \in WellFormedCycles}

\* the well-formed ReAct replies: non-empty, with or without a final line break
ReactReplies ==
    LET bodies == {JoinLines(ls) : ls \in CycleLines(MaxCycles) \ {<<>>}}
    IN  bodies \cup {b \o <<"\n">> : b \in bodies}

\* a reply with two markers on one line, alone or after a THOUGHT: line
TwoMarkerReplies ==
    LET twice == {<<m1, " ", "a", " ", m2, " ", "b">> :
                    m1, m2 \in {"THOUGHT:", "ACTION:", "OBSERVATION:",
                                "REASONING:"}}
    IN  twice \cup {<<"THOUGHT:", " ", "c", "\n">> \o l : l \in twice}

RECURSIVE LineSeqs(_, _)
\* the sequences of at most n lines taken from `choice`
LineSeqs(choice, n) ==
    IF n = 0 THEN {<<>>}
    ELSE LET shorter == LineSeqs(choice, n - 1)
         IN  shorter \cup {Append(ls, l) : ls \in shorter, l \in choice}

\* the lines of a Chain-of-Thought reply: empty, blank, plain, opening a step
StepLines ==
    {<<>>, <<" ">>, <<"a">>, <<"d", " ">>,
     <<"First", " ", "b">>, <<" ", "1.", " ", "c">>}
StepReplies == {JoinLines(ls) : ls \in LineSeqs(StepLines, MaxStepLines)}

\* the lines of a Self-Correction reply: empty, the four headers, list items
\* with and without a blank after the hyphen, scores and plain words
SectionLines ==
    {<<>>,
     <<"=", " ", "IDENTIFIED WEAKNESSES", " ", "=">>,
     <<"=", " ", "VALID COUNTER-POINTS", " ", "=">>,
     <<"=", " ", "IMPROVED ARGUMENT", " ", "=">>,
     <<"=", " ", "CONFIDENCE LEVEL", " ", "=">>,
     <<"-", " ", "w">>, <<" ", "-", "w", "x">>,
     <<"8", "/", "1", "0">>, <<"h">>, <<"0">>}
SectionReplies ==
    {JoinLines(ls) : ls \in LineSeqs(SectionLines, MaxSectionLines)}

Replies == ReactReplies \cup TwoMarkerReplies \cup StepReplies \cup SectionReplies

ParseInit ==
    /\ NewManager
    /\ debate_manager = FALSE
    /\ debate_started = FALSE
    /\ current_round = 0
    /\ num_rounds = 0
    /\ \E response \in Replies : op = [name |-> "reply", args |-> <<response>>]
    /\ calls = <<>>
    /\ result = Return(None)

parse_react_cycle ==
    /\ op.name = "reply"
    /\ op' = [name |-> "parse_react_cycle", args |-> op.args]
    /\ result' = Return(ParseReactCycle(op.args[1]))
    /\ UNCHANGED <<manager_vars, session_vars, calls, conclusions_made>>

extract_reasoning_steps ==
    /\ op.name = "reply"
    /\ op' = [name |-> "extract_reasoning_steps", args |-> op.args]
    /\ result' = Return(ExtractReasoningSteps(op.args[1]))
    /\ UNCHANGED <<manager_vars, session_vars, calls, conclusions_made>>

extract_improvements ==
    /\ op.name = "reply"
    /\ op' = [name |-> "extract_improvements", args |-> op.args]
    /\ result' = ExtractImprovements(op.args[1])
    /\ UNCHANGED <<manager_vars, session_vars, calls, conclusions_made>>

ParseNext ==
    \/ parse_react_cycle
    \/ extract_reasoning_steps
    \/ extract_improvements

ParseSpec == ParseInit /\ [][ParseNext]_vars

(***************************************************************************)
(* Properties.                                                             *)
(***************************************************************************)
\* s is a prefix of t
IsPrefix(s, t) == Len(s) <= Len(t) /\ SubSeq(t, 1, Len(s)) = s
\* turn m is `agent`'s turn of kind `type` holding the response `resp`
IsTurn(m, agent, type, resp) ==
    /\ m.agent = agent
    /\ m.type = type
    /\ m.content = resp.response
    /\ m.raw_response = resp
\* the kind of a rebuttal of round i, written out
RoundKind(i) == <<"rebuttal", "_", "round", "_">> \o Str(i)
\* the number of turns of kind opening
OpeningCount(h) == Cardinality({i \in 1..Len(h) : h[i].type = <<"opening">>})
\* the number of rebuttal turns
RebuttalCount(h) ==
    Cardinality({i \in 1..Len(h) :
                   Len(h[i].type) > 0 /\ h[i].type[1] = "rebuttal"})
\* h is [A opening, B opening, A rebuttal 1, B rebuttal 1, ..., B rebuttal k]
OpeningsThenRounds(h, k) ==
    /\ Len(h) = 2 + 2 * k
    /\ h[1].agent = "Agent A" /\ h[1].type = <<"opening">>
    /\ h[2].agent = "Agent B" /\ h[2].type = <<"opening">>
    /\ \A i \in 1..k :
         /\ h[2 * i + 1].agent = "Agent A" /\ h[2 * i + 1].type = RoundKind(i)
         /\ h[2 * i + 2].agent = "Agent B" /\ h[2 * i + 2].type = RoundKind(i)
    /\ \A i \in 1..Len(h) : h[i].content = h[i].raw_response.response

\* the step is a start_debate call
StartStep == op'.name = "start_debate" /\ debate_history' # debate_history
\* the step is an execute_round call
ExecStep == op'.name = "execute_round" /\ debate_history' # debate_history
\* the step is a conclude_debate call
ConcludeStep ==
    op'.name = "conclude_debate" /\ conclusions_made' # conclusions_made

\* C1: under the driver, which calls start_debate() on a fresh manager and
\* then execute_round(1), execute_round(2), ... in order, the transcript is
\* always [A opening, B opening, A rebuttal_round_1, B rebuttal_round_1, ...,
\* A rebuttal_round_k, B rebuttal_round_k] (length 2 + 2k) with k the last
\* round executed; the turns hold the responses returned to the caller, and
\* the moderator's analysis of the round is in the returned result only.
C1_OpeningsThenRounds ==
    debate_started =>
      /\ \E k \in 0..MaxNumRounds : OpeningsThenRounds(debate_history, k)
      /\ op.name = "start_debate" =>
           /\ OpeningsThenRounds(debate_history, 0)
           /\ ~result.raised
           /\ debate_history[1].raw_response = result.value.agent_a_opening
           /\ debate_history[2].raw_response = result.value.agent_b_opening
      /\ op.name = "execute_round" =>
           /\ OpeningsThenRounds(debate_history, op.args[1])
           /\ ~result.raised
           /\ debate_history[Len(debate_history) - 1].raw_response
                = result.value.agent_a_rebuttal
           /\ debate_history[Len(debate_history)].raw_response
                = result.value.agent_b_rebuttal
           /\ Len(calls) = 3
           /\ calls[3].method = "analyze_round"
           /\ result.value.moderator_analysis = calls[3].returned.value
           /\ \A i \in 1..Len(debate_history) :
                debate_history[i].agent # "Moderator"

\* C1 witness: two rounds were executed in order after the openings
C1_Witness ==
    /\ debate_started
    /\ op.name = "execute_round" /\ op.args = <<2>>
    /\ Len(debate_history) = 6
    /\ debate_history[6].type = RoundKind(2)

\* C2 (as claimed): each execute_round call appends three entries, agent A's
\* rebuttal, agent B's rebuttal and the moderator's analysis, in this order.
C2_ThreeEntries ==
    [][ExecStep =>
         /\ Len(debate_history') = Len(debate_history) + 3
         /\ debate_history'[Len(debate_history) + 1].agent = "Agent A"
         /\ debate_history'[Len(debate_history) + 2].agent = "Agent B"
         /\ debate_history'[Len(debate_history) + 3].agent = "Moderator"]_vars

\* C2 (amended): each execute_round(n) call appends exactly two entries,
\* agent A's rebuttal and then agent B's rebuttal, both of kind
\* rebuttal_round_n; the moderator's analysis of the two rebuttals is
\* requested last and is returned in the result, not appended.
C2_TwoEntries ==
    [][ExecStep =>
         /\ ~result'.raised
         /\ Len(debate_history') = Len(debate_history) + 2
         /\ IsPrefix(debate_history, debate_history')
         /\ IsTurn(debate_history'[Len(debate_history) + 1], "Agent A",
                   RoundKind(op'.args[1]), result'.value.agent_a_rebuttal)
         /\ IsTurn(debate_history'[Len(debate_history) + 2], "Agent B",
                   RoundKind(op'.args[1]), result'.value.agent_b_rebuttal)
         /\ Len(calls') = 3
         /\ calls'[3].agent = "Moderator"
         /\ calls'[3].method = "analyze_round"
         /\ result'.value.moderator_analysis = calls'[3].returned.value]_vars

\* C2 witness: a round ran on the openings and left four turns
C2_Witness ==
    /\ op.name = "execute_round"
    /\ Len(debate_history) = 4
    /\ debate_history[2].type = <<"opening">>
    /\ debate_history[3].agent = "Agent A"
    /\ debate_history[4].agent = "Agent B"
    /\ "moderator_analysis" \in DOMAIN result.value

\* C3: the transcript is append-only: across every call (start_debate,
\* execute_round, conclude_debate, get_debate_transcript, get_debate_summary)
\* the transcript before the call is a prefix of the transcript after it.
C3_AppendOnly == [][IsPrefix(debate_history, debate_history')]_vars

\* C3 witness: a transcript of four turns that a conclusion and a summary
\* call have been run on
C3_Witness ==
    /\ Len(debate_history) = 4
    /\ conclusions_made > 0
    /\ op.name = "get_debate_summary"

\* turns [A opening, B opening, A rebuttal_round_1, B rebuttal_round_1]
OneRoundDone(h) ==
    /\ Len(h) = 4
    /\ h[1].type = <<"opening">> /\ h[2].type = <<"opening">>
    /\ h[3].type = RoundKind(1) /\ h[4].type = RoundKind(1)

\* C4: conclude_debate leaves the turn sequence as it is and the conclusion
\* slot set; run after start_debate and execute_round(1) it leaves exactly
\* four turns and a conclusion.
C4_ConcludeFrame ==
    [][ConcludeStep =>
         /\ debate_history' = debate_history
         /\ final_conclusion' # None
         /\ OneRoundDone(debate_history) =>
              Len(debate_history') = 4 /\ final_conclusion' # None]_vars

\* C4 witness: the conclusion of a debate of two openings and one round
C4_Witness ==
    /\ op.name = "conclude_debate"
    /\ conclusions_made = 1
    /\ OneRoundDone(debate_history)
    /\ final_conclusion # None

\* C5: a conclude_debate call, the second one included, leaves in the one
\* conclusion slot the result of the final_conclusion completion of that very
\* call, whatever the slot held before, and adds no record elsewhere (the
\* transcript and round_analyses are as before).
C5_ConcludeOverwrites ==
    [][ConcludeStep =>
         /\ Len(calls') >= 1
         /\ calls'[1].method = "final_conclusion"
         /\ ~calls'[1].returned.raised
         /\ final_conclusion' = calls'[1].returned.value
         /\ debate_history' = debate_history
         /\ round_analyses' = round_analyses]_vars

\* C5 witness: conclude_debate ran twice on the same manager
C5_Witness ==
    /\ conclusions_made = 2
    /\ op.name = "conclude_debate"
    /\ final_conclusion = calls[1].returned.value

\* C6: the three completion calls of execute_round are issued in sequence
\* and chained: agent A rebuts the content of the last turn ("" on an empty
\* transcript), agent B rebuts the text agent A just returned, and the
\* moderator then analyses exactly the two rebuttal texts of the round.
C6_Chained ==
    [][ExecStep =>
         /\ Len(calls') = 3
         /\ calls'[1].agent = "Agent A"
         /\ calls'[1].method = "respond_to_opponent"
         /\ calls'[1].args[1] =
              (IF debate_history = <<>> THEN ""
               ELSE debate_history[Len(debate_history)].content)
         /\ ~calls'[1].returned.raised
         /\ calls'[2].agent = "Agent B"
         /\ calls'[2].method = "respond_to_opponent"
         /\ calls'[2].args[1] = calls'[1].returned.value.response
         /\ ~calls'[2].returned.raised
         /\ calls'[3].agent = "Moderator"
         /\ calls'[3].method = "analyze_round"
         /\ calls'[3].args[1] = calls'[1].returned.value.response
         /\ calls'[3].args[2] = calls'[2].returned.value.response]_vars

\* C6 witness: a round run on the empty transcript, agent A's call failing
C6_Witness ==
    /\ op.name = "execute_round"
    /\ Len(debate_history) = 2
    /\ calls[1].args[1] = ""
    /\ calls[2].args[1] = "Error: timeout"
    /\ calls[3].args[2] = "p"

\* the calls start_debate, execute_round and conclude_debate issue
PlannedCalls(name) ==
    CASE name = "start_debate" -> <<"opening_statement", "opening_statement">>
      [] name = "execute_round" ->
           <<"respond_to_opponent", "respond_to_opponent", "analyze_round">>
      [] name = "conclude_debate" ->
           <<"final_conclusion", "evaluate_debate_quality",
             "critique_debate_fairness">>
      [] OTHER -> <<>>

\* C7: a failure of the completion service never leaves start_debate,
\* execute_round or conclude_debate as an error: the failed call returns an
\* error-flagged result whose text describes the error, the operation issues
\* every one of its calls exactly once, and the error text is the content of
\* the turn (or the conclusion) the call was made for.
C7_DegradeAndContinue ==
    /\ ~result.raised
    /\ Len(calls) = Len(PlannedCalls(op.name))
    /\ \A i \in 1..Len(calls) :
         /\ calls[i].method = PlannedCalls(op.name)[i]
         /\ ~calls[i].returned.raised
         /\ ~calls[i].outcome.ok =>
              /\ "error" \in DOMAIN calls[i].returned.value
              /\ calls[i].returned.value.error
              /\ calls[i].returned.value.response
                   = "Error: " \o calls[i].outcome.payload
    /\ op.name \in {"start_debate", "execute_round"} =>
         /\ Len(debate_history) >= 2
         /\ \A i \in 1..2 :
              /\ debate_history[Len(debate_history) - 2 + i].content
                   = calls[i].returned.value.response
              /\ debate_history[Len(debate_history) - 2 + i].raw_response
                   = calls[i].returned.value
    /\ op.name = "conclude_debate" =>
         final_conclusion = calls[1].returned.value

\* C7 witness: a round whose first completion failed and whose later
\* completions were still made, the error text standing as agent A's turn
C7_Witness ==
    /\ op.name = "execute_round"
    /\ Len(debate_history) = 4
    /\ ~calls[1].outcome.ok
    /\ calls[2].outcome.ok
    /\ debate_history[3].content = "Error: timeout"
    /\ debate_history[4].content = "p"

\* C8 (as claimed): every reachable transcript holds at most two turns of
\* kind opening, and they are its first two entries.
C8_OpeningsOnlyFirst ==
    /\ OpeningCount(debate_history) <= 2
    /\ \A i \in 1..Len(debate_history) :
         debate_history[i].type = <<"opening">> => i <= 2

\* C8 (amended): start_debate has no guard: every call of it, on whatever
\* transcript, appends two opening turns (agent A's, then agent B's) at the
\* end, and no other call adds or removes an opening turn; so the openings
\* are the first two entries when start_debate ran on the empty transcript.
C8_OpeningsPerStart ==
    [][/\ StartStep =>
            /\ ~result'.raised
            /\ Len(debate_history') = Len(debate_history) + 2
            /\ IsPrefix(debate_history, debate_history')
            /\ IsTurn(debate_history'[Len(debate_history) + 1], "Agent A",
                      <<"opening">>, result'.value.agent_a_opening)
            /\ IsTurn(debate_history'[Len(debate_history) + 2], "Agent B",
                      <<"opening">>, result'.value.agent_b_opening)
       /\ ~StartStep =>
            OpeningCount(debate_history') = OpeningCount(debate_history)]_vars

\* C8 witness: start_debate ran on a transcript that was not empty
C8_Witness ==
    /\ op.name = "start_debate"
    /\ Len(debate_history) = 4
    /\ debate_history[1].type = RoundKind(1)
    /\ debate_history[3].type = <<"opening">>
    /\ debate_history[4].type = <<"opening">>

\* C9 (as claimed): under the driver, whenever conclude_debate has been
\* invoked, execute_round ran exactly num_rounds times: the transcript holds
\* 2 * num_rounds rebuttal turns.
C9_AllRoundsBeforeConclusion ==
    (debate_started /\ op.name = "conclude_debate") =>
        RebuttalCount(debate_history) = 2 * num_rounds

\* the lines among `ls` that begin with `marker`
MarkerLines(ls, marker) ==
    {i \in 1..Len(ls) : ls[i] # <<>> /\ ls[i][1] = marker}
\* the k-th line, in order, of the set of lines `ts`
Kth(ts, k) == CHOOSE i \in ts : Cardinality({j \in ts : j <= i}) = k
\* the lines of the cycle that begins at line i, `ts` being the THOUGHT: lines
CycleOf(ls, ts, i) ==
    {j \in i..Len(ls) : \A t \in ts : t <= i \/ t > j}
\* the text of a line after its marker, blanks trimmed at both ends
LineText(line) == Strip(Tail(line))
\* field `key` of `cycle` holds the text of the `marker` line among the
\* lines `js` of its cycle, and is absent when there is no such line
FieldHolds(cycle, key, ls, js, marker) ==
    LET ms == js \cap MarkerLines(ls, marker)
    IN  IF ms = {} THEN key \notin DOMAIN cycle
        ELSE /\ key \in DOMAIN cycle
             /\ \E j \in ms : cycle[key] = LineText(ls[j])

\* the four markers of a ReAct reply
ReactMarkers == {"THOUGHT:", "ACTION:", "OBSERVATION:", "REASONING:"}
\* the text is made of well-formed cycles: every line (a last empty line
\* apart) is one marker followed by text that holds no marker, the first
\* line is a THOUGHT: line, and between two lines of the same other marker
\* there is a THOUGHT: line
WellFormedReact(text) ==
    LET ls == Split(text, "\n")
        n == IF ls[Len(ls)] = <<>> THEN Len(ls) - 1 ELSE Len(ls)
    IN  /\ n >= 1
        /\ \A i \in 1..n :
             /\ ls[i] # <<>>
             /\ ls[i][1] \in ReactMarkers
             /\ \A j \in 2..Len(ls[i]) : ls[i][j] \notin ReactMarkers
        /\ ls[1][1] = "THOUGHT:"
        /\ \A i, j \in 1..n :
             (i < j /\ ls[i][1] = ls[j][1] /\ ls[i][1] # "THOUGHT:") =>
                \E t \in (i + 1)..(j - 1) : ls[t][1] = "THOUGHT:"

\* C10: for a non-empty text made of well-formed cycles, parse_react_cycle
\* returns one record per THOUGHT: line, in the order of the lines, the last
\* cycle included, and the fields of a record hold the texts of the lines of
\* its cycle.
C10_OneCyclePerThought ==
    (op.name = "parse_react_cycle" /\ WellFormedReact(op.args[1])) =>
      LET cycles == result.value
          ls == Split(op.args[1], "\n")
          ts == MarkerLines(ls, "THOUGHT:")
      IN  /\ Len(cycles) = Cardinality(ts)
          /\ \A k \in 1..Len(cycles) :
               LET js == CycleOf(ls, ts, Kth(ts, k))
               IN  /\ DOMAIN cycles[k] \subseteq
                        {"thought", "action", "observation", "reasoning"}
                   /\ FieldHolds(cycles[k], "thought", ls, js, "THOUGHT:")
                   /\ FieldHolds(cycles[k], "action", ls, js, "ACTION:")
                   /\ FieldHolds(cycles[k], "observation", ls, js,
                                 "OBSERVATION:")
                   /\ FieldHolds(cycles[k], "reasoning", ls, js, "REASONING:")

\* C10 witness: a reply of two cycles, the second one ended by the end of
\* the text, was parsed into two records
C10_Witness ==
    /\ op.name = "parse_react_cycle"
    /\ WellFormedReact(op.args[1])
    /\ Cardinality(MarkerLines(Split(op.args[1], "\n"), "THOUGHT:")) = 2
    /\ Len(result.value) = 2
    /\ "reasoning" \in DOMAIN result.value[2]
    /\ "action" \notin DOMAIN result.value[1]

(***************************************************************************)
(* Claims about extract_reasoning_steps and extract_improvements.          *)
(***************************************************************************)
\* the lines that open a step: trimmed, they start with a step marker
StepMarkerLines(ls) ==
    {i \in 1..Len(ls) : StartsWith(Strip(ls[i]), StepMarkers)}
\* the parser that ran last ran on a text without a line that opens a step
StepsOfUnmarkedText ==
    /\ op.name = "extract_reasoning_steps"
    /\ StepMarkerLines(Split(op.args[1], "\n")) = {}

\* C11 (as claimed): for every text without a marker line, the empty and the
\* blank text included, extract_reasoning_steps returns exactly one element,
\* the whole text trimmed.
C11_OneStepAlways ==
    StepsOfUnmarkedText => result.value = <<Strip(op.args[1])>>

\* C11 (amended): for a text without a marker line, extract_reasoning_steps
\* returns the one-element sequence of the trimmed text when the text holds
\* a non-blank character, and the empty sequence when it holds none.
C11_OneStepUnlessBlank ==
    StepsOfUnmarkedText =>
        result.value = IF Strip(op.args[1]) = <<>> THEN <<>>
                       ELSE <<Strip(op.args[1])>>

\* C11 witness: a text of several lines, blank at both ends, without a
\* marker line, came back as one trimmed step
C11_Witness ==
    /\ StepsOfUnmarkedText
    /\ Len(Split(op.args[1], "\n")) >= 2
    /\ Strip(op.args[1]) # <<>>
    /\ Strip(op.args[1]) # op.args[1]
    /\ result.value = <<Strip(op.args[1])>>

\* the section headers of a Self-Correction reply
SectionHeaders ==
    {"IDENTIFIED WEAKNESSES", "VALID COUNTER-POINTS", "IMPROVED ARGUMENT",
     "CONFIDENCE LEVEL"}
\* the header a line holds, as the if/elif chain reads it, or NoSection
HeaderOf(line) ==
    IF Contains(line, "IDENTIFIED WEAKNESSES") THEN "weaknesses"
    ELSE IF Contains(line, "VALID COUNTER-POINTS") THEN "valid_points"
    ELSE IF Contains(line, "IMPROVED ARGUMENT") THEN "improved_argument"
    ELSE IF Contains(line, "CONFIDENCE LEVEL") THEN "confidence"
    ELSE NoSection
\* the header lines of a text
HeaderLines(ls) == {i \in 1..Len(ls) : HeaderOf(ls[i]) # NoSection}

\* C12: no parser raises on any text, and extract_improvements returns the
\* defaults (no weaknesses, no valid points, an empty improved argument,
\* confidence 5) for a text that holds none of the section headers.
C12_ParsersNeverRaise ==
    (op.name \in {"extract_reasoning_steps", "parse_react_cycle",
                  "extract_improvements"}) =>
        /\ ~result.raised
        /\ (op.name = "extract_improvements"
              /\ HeaderLines(Split(op.args[1], "\n")) = {}) =>
             result.value = [weaknesses |-> <<>>, valid_points |-> <<>>,
                             improved_argument |-> <<>>, confidence |-> 5]

\* C12 witness: a confidence section whose line is no number was parsed, the
\* exception of int() swallowed, and the confidence left at its default
C12_Witness ==
    /\ op.name = "extract_improvements"
    /\ LET ls == Split(op.args[1], "\n")
       IN  /\ Len(ls) >= 2
           /\ HeaderOf(ls[1]) = "confidence"
           /\ Strip(ls[2]) # <<>>
           /\ int(Chars(Strip(ls[2]))[1]).raised
    /\ ~result.raised
    /\ result.value.confidence = 5

\* the largest and the smallest element of a non-empty set of line numbers
Last(is) == CHOOSE i \in is : \A j \in is : j <= i
First(is) == CHOOSE i \in is : \A j \in is : i <= j
\* the section line i lies in: that of the closest header line before it
SectionAt(ls, i) ==
    LET hs == {h \in HeaderLines(ls) : h < i}
    IN  IF hs = {} THEN NoSection ELSE HeaderOf(ls[Last(hs)])
\* the non-empty lines inside `section`
SectionBody(ls, section) ==
    {i \in 1..Len(ls) : /\ i \notin HeaderLines(ls)
                        /\ SectionAt(ls, i) = section
                        /\ Strip(ls[i]) # <<>>}

\* C13 (as claimed): in a text with one CONFIDENCE LEVEL header and no header
\* after it, the first non-empty line after the header alone decides the
\* confidence: its first character read as an integer, or 5 when that fails
\* or when there is no such line.
C13_FirstLineDecides ==
    (op.name = "extract_improvements") =>
        LET ls == Split(op.args[1], "\n")
            hs == HeaderLines(ls)
            cs == {h \in hs : HeaderOf(ls[h]) = "confidence"}
            body == SectionBody(ls, "confidence")
        IN  (Cardinality(cs) = 1 /\ Last(hs) \in cs) =>
                result.value.confidence =
                    IF body = {} THEN 5
                    ELSE LET score == int(Chars(Strip(ls[First(body)]))[1])
                         IN  IF score.raised THEN 5 ELSE score.value

\* C14 (as claimed): the confidence extract_improvements returns is an
\* integer in 1..10, whatever the text.
C14_ConfidenceInRange ==
    (op.name = "extract_improvements") => result.value.confidence \in 1..10

\* the field of a cycle record a marker sets
ReactField(marker) ==
    CASE marker = "THOUGHT:" -> "thought"
      [] marker = "ACTION:" -> "action"
      [] marker = "OBSERVATION:" -> "observation"
      [] marker = "REASONING:" -> "reasoning"

\* C16 (as claimed): a reply of one line that holds more than one marker is
\* classified by its leftmost marker, and the field holds the text that
\* follows that marker, trimmed.
C16_LeftmostMarkerWins ==
    (op.name = "parse_react_cycle") =>
        LET line == op.args[1]
            ms == {i \in 1..Len(line) : line[i] \in ReactMarkers}
        IN  (~Contains(line, "\n") /\ Cardinality(ms) >= 2) =>
                result.value =
                    << ReactField(line[First(ms)]) :>
                         Strip(SubSeq(line, First(ms) + 1, Len(line))) >>

\* a list item as the claim reads it: the trimmed line without its hyphen
\* and without the one blank after the hyphen, if there is one
ClaimedItem(line) ==
    LET rest == Tail(Chars(Strip(line)))
    IN  IF rest # <<>> /\ Head(rest) = " " THEN Tail(rest) ELSE rest

\* C18 (as claimed): the weaknesses and the valid points are the non-empty
\* lines of their sections that begin, trimmed, with a hyphen, in order, each
\* without the hyphen and the blank after it and with no other character
\* dropped; lines that do not begin with a hyphen are not captured.
C18_ItemTextKept ==
    (op.name = "extract_improvements") =>
        \A section \in {"weaknesses", "valid_points"} :
            LET ls == Split(op.args[1], "\n")
                items == {i \in SectionBody(ls, section) :
                            StartsWith(Strip(ls[i]), {"-"})}
                got == result.value[section]
            IN  /\ Len(got) = Cardinality(items)
                /\ \A k \in 1..Len(got) :
                       got[k] = ClaimedItem(ls[Kth(items, k)])

\* the line at which the step opened at line i ends: the one before the next
\* marker line, or the last line
StepEnd(ls, ms, i) ==
    LET later == {m \in ms : m > i}
    IN  IF later = {} THEN Len(ls) ELSE First(later) - 1
\* the steps the marker lines `ms` open, each with the lines that follow it
\* up to the next marker line, in line order
MarkedSteps(ls, ms) ==
    [k \in 1..Cardinality(ms) |->
        LET i == Kth(ms, k)
        IN  Strip(JoinLines(SubSeq(ls, i, StepEnd(ls, ms, i))))]
\* the lines before the first marker line as one step, none if all are blank
LeadingStep(ls, ms) ==
    LET lead == Strip(JoinLines(SubSeq(ls, 1, First(ms) - 1)))
    IN  IF lead = <<>> THEN <<>> ELSE <<lead>>

\* C17 (as claimed): for a text with a marker line the lines before the
\* first marker line are lost, so the steps returned are exactly those the
\* marker lines open, each with the non-marker lines that follow it, in line
\* order.
C17_LeadingLinesLost ==
    (op.name = "extract_reasoning_steps") =>
        LET ls == Split(op.args[1], "\n")
            ms == StepMarkerLines(ls)
        IN  ms # {} => result.value = MarkedSteps(ls, ms)

\* C17 (amended): for a text with a marker line, the lines before the first
\* marker line form the first returned step unless all of them are blank;
\* after it come the steps the marker lines open, each with the non-marker
\* lines that follow it up to the next marker line, in line order.
C17_LeadingLinesKept ==
    (op.name = "extract_reasoning_steps") =>
        LET ls == Split(op.args[1], "\n")
            ms == StepMarkerLines(ls)
        IN  ms # {} =>
                result.value = LeadingStep(ls, ms) \o MarkedSteps(ls, ms)

\* C17 witness: a text of a plain line, a marker line and a line after it
\* came back as two steps, the plain line first
C17_Witness ==
    /\ op.name = "extract_reasoning_steps"
    /\ LET ls == Split(op.args[1], "\n")
       IN  /\ StepMarkerLines(ls) = {2}
           /\ Len(ls) = 3
           /\ Strip(ls[1]) # <<>>
           /\ Strip(ls[3]) # <<>>
           /\ Len(result.value) = 2
           /\ result.value[1] = Strip(ls[1])
           /\ result.value[2] = Strip(ls[2] \o <<"\n">> \o ls[3])

(***************************************************************************)
(* Claims about the text transcript and the structured export.             *)
(***************************************************************************)
\* the lines of a rendered transcript that begin an entry
EntryLines(ls) == {p \in 1..Len(ls) : ls[p] # <<>> /\ ls[p][1] = "["}
\* the lines of a rendered transcript other than its Generated: line
Unstamped(text) ==
    SelectSeq(Split(text, "\n"),
              LAMBDA l : ~(l # <<>> /\ l[1] = "Generated: "))
\* the text has one entry per turn of h, in the order of h: the k-th entry
\* starts with the index k and the speaker of turn k and ends with its content
OneEntryPerTurn(ls, h) ==
    LET es == EntryLines(ls)
    IN  /\ Cardinality(es) = Len(h)
        /\ \A k \in 1..Len(h) :
             LET p == Kth(es, k)
             IN  /\ IsPrefix(<<"[">> \o Str(k) \o <<"] ", h[k].agent, " - ">>,
                             ls[p])
                 /\ p + 2 <= Len(ls)
                 /\ ls[p + 2] = <<h[k].content>>

\* C15: the transcript is rendered from the turns and the conclusion alone:
\* it holds one entry per turn, in order, numbered from 1; it holds the
\* MODERATOR FINAL CONCLUSION section exactly when a conclusion is set; and
\* a rendering of the same turns and conclusion at any other clock reading
\* differs from it at most in the Generated: line.
C15_TranscriptOfTurnsAndConclusion ==
    (op.name = "get_debate_transcript") =>
        LET ls == Split(result.value, "\n")
        IN  /\ OneEntryPerTurn(ls, debate_history)
            /\ (\E p \in 1..Len(ls) : ls[p] = <<"MODERATOR FINAL CONCLUSION">>)
                 <=> (final_conclusion # None)
            /\ \A now \in Clock :
                 Unstamped(RenderTranscript(debate_history, final_conclusion,
                                            now))
                   = Unstamped(result.value)

\* C15 witness: a transcript of four turns and a conclusion was rendered at
\* the later of the two clock readings
C15_Witness ==
    /\ op.name = "get_debate_transcript"
    /\ Len(debate_history) = 4
    /\ final_conclusion # None
    /\ \E p \in 1..Len(result.value) :
         /\ result.value[p] = "Generated: "
         /\ result.value[p + 1] = "2026-01-01 10:00:01"
    /\ \E p \in 1..Len(result.value) :
         result.value[p] = "MODERATOR FINAL CONCLUSION"

\* a turn kind in capitals with its underscores kept
KindKept(type) ==
    IF type = <<"opening">> THEN <<"OPENING">>
    ELSE <<"REBUTTAL", "_", "ROUND", "_">> \o SubSeq(type, 5, Len(type))
\* a turn kind in capitals with a blank for each underscore
KindSpaced(type) ==
    IF type = <<"opening">> THEN <<"OPENING">>
    ELSE <<"REBUTTAL", " ", "ROUND", " ">> \o SubSeq(type, 5, Len(type))
\* entry k of the rendered lines is the header line of turn k showing
\* `kind`, then the separator line, then the content
EntryShows(ls, h, k, kind) ==
    LET p == Kth(EntryLines(ls), k)
    IN  /\ ls[p] = <<"[">> \o Str(k) \o <<"] ", h[k].agent, " - ">> \o kind
        /\ ls[p + 1] = <<Rule40>>
        /\ ls[p + 2] = <<h[k].content>>

\* C19 (as claimed): each entry of the transcript shows the index, the
\* speaker and the kind in capitals with blanks for its underscores
\* (REBUTTAL ROUND 1), then a separator line, then the content.
C19_KindWithSpaces ==
    (op.name = "get_debate_transcript") =>
        LET ls == Split(result.value, "\n")
        IN  \A k \in 1..Len(debate_history) :
                EntryShows(ls, debate_history, k,
                           KindSpaced(debate_history[k].type))

\* C19 (amended): each entry of the transcript shows the index, the speaker
\* and the kind in capitals with its underscores kept (REBUTTAL_ROUND_1),
\* then a separator line, then the content.
C19_KindWithUnderscores ==
    (op.name = "get_debate_transcript") =>
        LET ls == Split(result.value, "\n")
        IN  \A k \in 1..Len(debate_history) :
                EntryShows(ls, debate_history, k,
                           KindKept(debate_history[k].type))

\* C19 witness: a transcript with a rebuttal of round 1 was rendered, its
\* header line reading REBUTTAL_ROUND_1
C19_Witness ==
    /\ op.name = "get_debate_transcript"
    /\ \E k \in 1..Len(debate_history) :
         /\ debate_history[k].type = <<"rebuttal", "_", "round", "_", "1">>
         /\ \E p \in 1..Len(result.value) :
              SubSeq(result.value, p, p + 4) =
                  <<"REBUTTAL", "_", "ROUND", "_", "1">>

\* C20 (as claimed): the total_rounds the JSON export writes is the number
\* of rounds executed on the session: half the number of rebuttal turns of
\* the transcript.
C20_ExportCountsExecutedRounds ==
    (op.name = "download_json") =>
        2 * result.value.metadata.total_rounds = RebuttalCount(debate_history)

(***************************************************************************)
(* Claims about the order of the turns and of the calls.                   *)
(***************************************************************************)
\* h holds turns of the two debaters only, Agent A's at the odd places and
\* Agent B's at the even places, as many of the one as of the other
AlternatesAB(h) ==
    /\ Len(h) % 2 = 0
    /\ \A i \in 1..Len(h) :
         h[i].agent = IF i % 2 = 1 THEN "Agent A" ELSE "Agent B"

\* C21: between any two calls of start_debate, execute_round and
\* conclude_debate on one DebateManager the transcript holds turns of Agent A
\* and Agent B only, is of even length and alternates A, B; so a transcript
\* that is not empty ends with a turn of Agent A followed by one of Agent B.
C21_TranscriptAlternates ==
    /\ AlternatesAB(debate_history)
    /\ debate_history # <<>> =>
         /\ debate_history[Len(debate_history)].agent = "Agent B"
         /\ debate_history[Len(debate_history) - 1].agent = "Agent A"

\* C21 witness: execute_round has run on a manager whose conclusion was set
\* before, and left four turns
C21_Witness ==
    /\ op.name = "execute_round"
    /\ final_conclusion # None
    /\ Len(debate_history) = 4
    /\ debate_history[3].type # <<"opening">>

\* the text holds the MODERATOR FINAL CONCLUSION section with `response`
HoldsConclusion(text, response) ==
    LET ls == Split(text, "\n")
    IN  \E p \in 1..(Len(ls) - 2) :
            /\ ls[p] = <<"MODERATOR FINAL CONCLUSION">>
            /\ ls[p + 2] = <<response>>

\* C22: in every conclude_debate call, first or repeated, the transcript
\* handed to evaluate_debate_quality already holds the MODERATOR FINAL
\* CONCLUSION section with the conclusion this call generated, while the
\* final_conclusion request got the contents of the turns and the fairness
\* critique the contents of each debater's turns, and nothing else.
C22_ConclusionRenderedForQuality ==
    (op.name = "conclude_debate") =>
        /\ Len(calls) = 3
        /\ calls[1].method = "final_conclusion"
        /\ calls[1].args = <<Contents(debate_history), Topic>>
        /\ calls[2].method = "evaluate_debate_quality"
        /\ HoldsConclusion(calls[2].args[1], calls[1].returned.value.response)
        /\ final_conclusion = calls[1].returned.value
        /\ calls[3].method = "critique_debate_fairness"
        /\ calls[3].args = <<ArgsOf(debate_history, "Agent A"),
                             ArgsOf(debate_history, "Agent B")>>

\* C22 witness: a second conclude_debate call whose completion failed, on a
\* transcript of two turns: the transcript it handed on holds the error text
\* as the conclusion
C22_Witness ==
    /\ op.name = "conclude_debate"
    /\ conclusions_made = 2
    /\ Len(debate_history) = 2
    /\ ~calls[1].outcome.ok
    /\ HoldsConclusion(calls[2].args[1], final_conclusion.response)

\* the click resets the session
ResetStep == op'.name = "reset"

\* C23: under the driver start_debate runs only on an empty transcript of a
\* session that has not started (so once per session), and leaves the two
\* openings; while a debate
\* is on, 1 <= current_round <= num_rounds and the transcript holds
\* 2 * current_round turns; and once the conclusion is set no click but a
\* reset changes the transcript.
C23_SessionLifecycle ==
    [][/\ (op'.name = "start_debate") =>
             /\ ~debate_started
             /\ debate_history = <<>>
             /\ Len(debate_history') = 2
       /\ debate_started' =>
             /\ 1 <= current_round'
             /\ current_round' <= num_rounds'
             /\ Len(debate_history') = 2 * current_round'
       /\ (final_conclusion # None /\ ~ResetStep) =>
             UNCHANGED debate_history]_vars

\* C23 witness: a session of two planned rounds reached its conclusion with
\* current_round = 2 and four turns
C23_Witness ==
    /\ debate_started
    /\ op.name = "conclude_debate"
    /\ final_conclusion # None
    /\ num_rounds = 2
    /\ current_round = 2
    /\ Len(debate_history) = 4

=============================================================================
